---- MODULE Spec2Model ----
(***************************************************************************)
(* Model of the AI GitHub repository analyzer: the orchestration run of    *)
(* AppComponent.onAnalyzeRepo (5 stages), the retrying HTTP helper of      *)
(* GithubService and the incremental JSON-object stream parser that is     *)
(* embedded in stage 4.                                                    *)
(*                                                                         *)
(* Texts are sequences of one-character strings.  The alphabet of the      *)
(* model is  { } " : , backquote 1 space newline  and the letters of      *)
(* "path", "content", "json", "a", "b", "x", "y".                          *)
(***************************************************************************)
EXTENDS Integers, Sequences, FiniteSets, TLC

(***************************************************************************)
(* Bounds of the model.                                                    *)
(***************************************************************************)
MaxPieces == 2
MaxTree == 1
MaxAnalysisChunks == 1
MaxObjects == 2

(***************************************************************************)
(* Characters and text helpers (JavaScript String methods).                *)
(***************************************************************************)
LBRACE == "{"
RBRACE == "}"
QUOTE == "\""
COLON == ":"
COMMA == ","
\* The backquote character; a TLA+ string cannot hold one, "~" stands for it.
TICK == "~"
NL == "\n"
SP == " "
ONE == "1"

IsWs(c) == c \in {SP, NL}

\* Least and greatest position of a set of positions, 0 when there is none.
First(S) == IF S = {} THEN 0 ELSE CHOOSE k \in S : \A m \in S : k <= m

\* String.prototype.indexOf(c, i): 1-based position of the first c at or after
\* i, 0 when absent (the source's -1).
RECURSIVE IndexFrom(_, _, _)
IndexFrom(s, c, i) ==
  IF i > Len(s) THEN 0
  ELSE IF s[i] = c THEN i
  ELSE IndexFrom(s, c, i + 1)

IndexOf(s, c) == IndexFrom(s, c, 1)

Includes(s, c) == IndexOf(s, c) # 0

\* String.prototype.substring(from) with a 1-based from.
Substring(s, from) == SubSeq(s, from, Len(s))

\* Position of the first character at or after i that is not whitespace.
RECURSIVE SkipWs(_, _)
SkipWs(s, i) ==
  IF i <= Len(s) /\ IsWs(s[i]) THEN SkipWs(s, i + 1) ELSE i

TrimStart(s) == SubSeq(s, SkipWs(s, 1), Len(s))

RECURSIVE TrimEnd(_)
TrimEnd(s) ==
  IF s # << >> /\ IsWs(s[Len(s)]) THEN TrimEnd(SubSeq(s, 1, Len(s) - 1)) ELSE s

Trim(s) == TrimEnd(TrimStart(s))

JSON_WORD == <<"j", "s", "o", "n">>

IsTicksAt(s, i) ==
  /\ i + 2 <= Len(s)
  /\ s[i] = TICK /\ s[i + 1] = TICK /\ s[i + 2] = TICK

IsJsonAt(s, i) ==
  /\ i + 3 <= Len(s)
  /\ SubSeq(s, i, i + 3) = JSON_WORD

\* buffer.replace(/[backquote]{3}(json)?/g, ''): leftmost non-overlapping
\* matches, the optional group greedy.
RECURSIVE StripFencesFrom(_, _)
StripFencesFrom(s, i) ==
  LET k == First({j \in i..Len(s) : IsTicksAt(s, j)})
  IN IF k = 0 THEN SubSeq(s, i, Len(s))
     ELSE SubSeq(s, i, k - 1)
            \o StripFencesFrom(s, IF IsJsonAt(s, k + 3) THEN k + 7 ELSE k + 3)

StripFences(s) == StripFencesFrom(s, 1)

(***************************************************************************)
(* JSON.parse, on the alphabet of the model.  Grammar (RFC 8259 restricted *)
(* to the alphabet): value = object | string | number; whitespace is space *)
(* or newline; a string holds any characters but the quote and the         *)
(* newline (a raw control character is a syntax error); a number is a run  *)
(* of digits optionally followed by e and a run of digits.  No literal     *)
(* (true, false, null) and no array can be written in the alphabet.        *)
(* A parse returns [ok, next, val]; next is the position after the value.  *)
(***************************************************************************)
Undefined == [t |-> "undefined"]
StringVal(s) == [t |-> "string", s |-> s]
NumberVal(n) == [t |-> "number", n |-> n]
ObjectVal(m) == [t |-> "object", m |-> m]

Fail == [ok |-> FALSE, next |-> 0, val |-> Undefined]
Ok(next, val) == [ok |-> TRUE, next |-> next, val |-> val]

\* Position of the closing quote of the string whose body starts at i; 0 when
\* the string is not terminated or holds a raw newline.
RECURSIVE StringEnd(_, _)
StringEnd(s, i) ==
  IF i > Len(s) THEN 0
  ELSE IF s[i] = QUOTE THEN i
  ELSE IF s[i] = NL THEN 0
  ELSE StringEnd(s, i + 1)

ParseString(s, i) ==
  IF i > Len(s) \/ s[i] # QUOTE THEN Fail
  ELSE LET e == StringEnd(s, i + 1)
       IN IF e = 0 THEN Fail
          ELSE Ok(e + 1, StringVal(SubSeq(s, i + 1, e - 1)))

\* Position after the run of digits that starts at i.
RECURSIVE DigitsEnd(_, _)
DigitsEnd(s, i) ==
  IF i <= Len(s) /\ s[i] = ONE THEN DigitsEnd(s, i + 1) ELSE i

ParseNumber(s, i) ==
  LET d == DigitsEnd(s, i)
  IN IF d = i THEN Fail
     ELSE IF d <= Len(s) /\ s[d] = "e"
          THEN LET x == DigitsEnd(s, d + 1)
               IN IF x = d + 1 THEN Fail
                  ELSE Ok(x, NumberVal(SubSeq(s, i, x - 1)))
          ELSE Ok(d, NumberVal(SubSeq(s, i, d - 1)))

\* Property assignment of an object under construction: a repeated key keeps
\* its position and takes the later value.
HasKey(m, k) == \E j \in 1..Len(m) : m[j][1] = k

SetMember(m, k, v) ==
  IF HasKey(m, k)
  THEN [j \in 1..Len(m) |-> IF m[j][1] = k THEN <<k, v>> ELSE m[j]]
  ELSE Append(m, <<k, v>>)

\* Property read: obj.key, undefined when absent.
GetMember(obj, k) ==
  IF obj.t = "object" /\ HasKey(obj.m, k)
  THEN LET j == CHOOSE j \in 1..Len(obj.m) : obj.m[j][1] = k IN obj.m[j][2]
  ELSE Undefined

RECURSIVE ParseValue(_, _)
RECURSIVE ParseMembers(_, _, _)

\* After '{' or ',': member (',' member)* '}' with the members read so far.
ParseMembers(s, i, m) ==
  LET k == ParseString(s, SkipWs(s, i))
  IN IF ~k.ok THEN Fail
     ELSE LET c == SkipWs(s, k.next)
          IN IF c > Len(s) \/ s[c] # COLON THEN Fail
             ELSE LET v == ParseValue(s, SkipWs(s, c + 1))
                  IN IF ~v.ok THEN Fail
                     ELSE LET n == SkipWs(s, v.next)
                              m2 == SetMember(m, k.val.s, v.val)
                          IN IF n > Len(s) THEN Fail
                             ELSE IF s[n] = RBRACE THEN Ok(n + 1, ObjectVal(m2))
                             ELSE IF s[n] = COMMA THEN ParseMembers(s, n + 1, m2)
                             ELSE Fail

ParseObject(s, i) ==
  LET j == SkipWs(s, i + 1)
  IN IF j > Len(s) THEN Fail
     ELSE IF s[j] = RBRACE THEN Ok(j + 1, ObjectVal(<< >>))
     ELSE ParseMembers(s, j, << >>)

ParseValue(s, i) ==
  IF i > Len(s) THEN Fail
  ELSE IF s[i] = LBRACE THEN ParseObject(s, i)
  ELSE IF s[i] = QUOTE THEN ParseString(s, i)
  ELSE IF s[i] = ONE THEN ParseNumber(s, i)
  ELSE Fail

\* JSON.parse(text): one value surrounded by optional whitespace; ok = FALSE
\* stands for the SyntaxError.
JsonParse(s) ==
  LET v == ParseValue(s, SkipWs(s, 1))
  IN IF v.ok /\ SkipWs(s, v.next) > Len(s) THEN v ELSE Fail

\* JavaScript truthiness of a parsed value (the operands of &&).
Truthy(v) ==
  CASE v.t = "undefined" -> FALSE
    [] v.t = "string" -> v.s # << >>
    [] v.t = "number" -> TRUE
    [] v.t = "object" -> TRUE

PATH == <<"p", "a", "t", "h">>
CONTENT == <<"c", "o", "n", "t", "e", "n", "t">>

(***************************************************************************)
(* The extraction loop of stage 4 (app.component.ts 94-141).               *)
(***************************************************************************)
\* The inner for loop: position where the brace depth returns to zero, 0
\* when the end of the buffer is reached first (the source's -1).  Only a
\* brace changes braceCount, so the scan goes from brace to brace.
RECURSIVE ScanEnd(_, _, _)
ScanEnd(b, i, braceCount) ==
  LET k == First({j \in i..Len(b) : b[j] \in {LBRACE, RBRACE}})
  IN IF k = 0 THEN 0
     ELSE IF b[k] = LBRACE THEN ScanEnd(b, k + 1, braceCount + 1)
     ELSE IF braceCount - 1 = 0 THEN k
     ELSE ScanEnd(b, k + 1, braceCount - 1)

\* Mutant of ObjectEndIndex: the index before the closing brace.
ObjectEndIndexBefore(b) == IF ScanEnd(b, 1, 0) = 0 THEN 0 ELSE ScanEnd(b, 1, 0) - 1

ObjectEndIndex(b) == ScanEnd(b, 1, 0)

\* Mutant of NoObjectStart: the fence markers are not removed.
NoObjectStartKeepsFences(b) ==
  LET b1 == IF ~Includes(b, RBRACE) THEN Trim(b) ELSE b
  IN IF Trim(b1) = << >> THEN << >> ELSE b1

\* The branch taken when the buffer holds no '{'.
NoObjectStart(b) ==
  LET b1 == IF ~Includes(b, RBRACE) THEN Trim(StripFences(b)) ELSE b
  IN IF Trim(b1) = << >> THEN << >> ELSE b1

\* Mutant of DiscardBefore: the text before the first '{' is kept.
DiscardBeforeKeep(b, objectStartIndex) == b

\* buffer = buffer.substring(objectStartIndex)
DiscardBefore(b, objectStartIndex) == Substring(b, objectStartIndex)

\* Mutant of AcceptCandidate: no try/catch around JSON.parse.
AcceptCandidateNoCatch(files, objectStr) ==
  LET r == JsonParse(objectStr)
  IN IF ~r.ok
     THEN [files |-> files, thrown |-> TRUE]
     ELSE IF Truthy(GetMember(r.val, PATH)) /\ Truthy(GetMember(r.val, CONTENT))
          THEN [files |-> Append(files, r.val), thrown |-> FALSE]
          ELSE [files |-> files, thrown |-> FALSE]

\* Mutant of AcceptCandidate: a record replaces an earlier one of the same path.
AcceptCandidateReplace(files, objectStr) ==
  LET r == JsonParse(objectStr)
      same(f) == GetMember(f, PATH) = GetMember(r.val, PATH)
  IN IF ~r.ok
     THEN [files |-> files, thrown |-> FALSE]
     ELSE IF Truthy(GetMember(r.val, PATH)) /\ Truthy(GetMember(r.val, CONTENT))
          THEN IF \E i \in 1..Len(files) : same(files[i])
               THEN [files |-> [i \in 1..Len(files) |->
                                  IF same(files[i]) THEN r.val ELSE files[i]],
                     thrown |-> FALSE]
               ELSE [files |-> Append(files, r.val), thrown |-> FALSE]
          ELSE [files |-> files, thrown |-> FALSE]

\* try { JSON.parse; if (file.path && file.content) append } catch { warn }:
\* the record list afterwards, and whether an exception leaves the block.
AcceptCandidate(files, objectStr) ==
  LET r == JsonParse(objectStr)
  IN IF ~r.ok
     THEN [files |-> files, thrown |-> FALSE]
     ELSE IF Truthy(GetMember(r.val, PATH)) /\ Truthy(GetMember(r.val, CONTENT))
          THEN [files |-> Append(files, r.val), thrown |-> FALSE]
          ELSE [files |-> files, thrown |-> FALSE]

\* Mutant of ExtractLoop: the loop is left after the first extracted object.
ExtractLoopOnce(b, files, n) ==
  LET objectStartIndex == IndexOf(b, LBRACE)
  IN IF objectStartIndex = 0
     THEN [buffer |-> NoObjectStart(b), files |-> files, iterations |-> n + 1,
           thrown |-> FALSE]
     ELSE LET b1 == DiscardBefore(b, objectStartIndex)
              objectEndIndex == ObjectEndIndex(b1)
              rest == Substring(b1, objectEndIndex + 1)
              a == AcceptCandidate(files, SubSeq(b1, 1, objectEndIndex))
          IN IF objectEndIndex # 0
             THEN [buffer |-> rest, files |-> a.files, iterations |-> n + 1,
                   thrown |-> a.thrown]
             ELSE [buffer |-> b1, files |-> files, iterations |-> n + 1,
                   thrown |-> FALSE]

\* while (true) { ... }: the state [buffer, files, iterations] when the loop
\* is left, by break or (thrown) by an exception.
RECURSIVE ExtractLoop(_, _, _)
ExtractLoop(b, files, n) ==
  LET objectStartIndex == IndexOf(b, LBRACE)
  IN IF objectStartIndex = 0
     THEN [buffer |-> NoObjectStart(b), files |-> files, iterations |-> n + 1,
           thrown |-> FALSE]
     ELSE LET b1 == DiscardBefore(b, objectStartIndex)
              objectEndIndex == ObjectEndIndex(b1)
              rest == Substring(b1, objectEndIndex + 1)
              a == AcceptCandidate(files, SubSeq(b1, 1, objectEndIndex))
          IN IF objectEndIndex # 0
             THEN IF a.thrown
                  THEN [buffer |-> rest, files |-> a.files, iterations |-> n + 1,
                        thrown |-> TRUE]
                  ELSE ExtractLoop(rest, a.files, n + 1)
             ELSE [buffer |-> b1, files |-> files, iterations |-> n + 1,
                   thrown |-> FALSE]

\* Mutant of ProcessChunk: buffer = chunk.text instead of buffer += chunk.text.
ProcessChunkNoCarry(b, files, chunk) == ExtractLoop(chunk, files, 0)

\* One turn of the for-await loop: append the chunk, run the extraction loop.
ProcessChunk(b, files, chunk) == ExtractLoop(b \o chunk, files, 0)

(***************************************************************************)
(* Values shared by the services and the component.                        *)
(***************************************************************************)
Null == [null |-> TRUE]
Some(v) == [null |-> FALSE, v |-> v]

\* Error messages are sequences of text parts (a status is one part).
MSG_ENTER_URL == <<"Please enter a valid GitHub repository URL.">>
MSG_INVALID_URL == <<"Invalid URL provided.">>
MSG_EMPTY == <<"Repository appears to be empty or contains no readable files.">>
MSG_UNKNOWN == <<"An unknown error occurred.">>
MSG_RATE_LIMIT == <<"GitHub API rate limit exceeded. Please provide a Personal Access Token to continue.">>
MSG_NOT_FOUND == <<"Repository not found. It may be private or spelled incorrectly.">>
MSG_BAD_TOKEN == <<"The provided GitHub token is invalid or expired.">>
MSG_NO_BRANCH == <<"Could not determine the default branch for the repository.">>
MSG_NETWORK == <<"A network error occurred trying to contact the GitHub API.">>
\* Messages of errors that are not raised by the code of the repository.
MSG_FETCH_OTHER == <<"(message of an unexpected fetch error)">>
MSG_NO_COMMIT == <<"(TypeError: cannot read properties of undefined)">>
MSG_MODEL_API == <<"(message of a language-model API error)">>
MSG_SYNTAX == <<"(message of a SyntaxError of JSON.parse)">>
MsgDetailsFailed(status) == <<"Failed to fetch repository details (", ToString(status), ")">>
MsgBranchFailed(status) == <<"Failed to get details for branch: ", ToString(status)>>
MsgTreeFailed(status) == <<"Failed to fetch repository file tree: ", ToString(status)>>
\* getRepoFiles, catch: new Error(`Could not download repository. Reason: ...`)
WrapDownload(m) == <<"Could not download repository. Reason: ">> \o m

(***************************************************************************)
(* GithubService.performFetch.                                             *)
(***************************************************************************)
RETRIES == 3
BACKOFF == 300
BATCH_SIZE == 20

\* The response statuses that the callers of performFetch tell apart: only
\* getDefaultBranch looks at the status of a response that is not ok.
Statuses(kind) ==
  IF kind = "details" THEN {200, 401, 403, 404, 503} ELSE {200, 404, 503}

Response(status, body) == [type |-> "response", status |-> status, body |-> body]
FailedToFetch == [type |-> "failedToFetch", status |-> 0, body |-> "none"]
OtherError == [type |-> "otherError", status |-> -1, body |-> "none"]

Bodies(kind) ==
  CASE kind = "details" -> {"hasBranch", "noBranch"}
    [] kind = "branch" -> {"hasSha", "noCommit"}
    [] kind = "tree" -> {"tree"}
    [] kind = "blob" -> {"base64", "otherEncoding", "undecodable"}

\* What one call of fetch(url, options) can settle with.
Outcomes(kind) ==
  {Response(200, b) : b \in Bodies(kind)}
    \cup {Response(st, "none") : st \in Statuses(kind) \ {200}}
    \cup {FailedToFetch, OtherError}

\* A call of performFetch with its parameters (retries, backoff), where it is
\* suspended (phase), and what it has seen: the outcomes of its fetches that
\* were retried (hist) and the delays it has waited (waits).
NewCall(kind) ==
  [kind |-> kind, retries |-> RETRIES, backoff |-> BACKOFF, phase |-> "fetch",
   hist |-> << >>, waits |-> << >>, result |-> Null]

NoCall == [NewCall("none") EXCEPT !.phase = "none"]

\* Mutant of PerformFetchStep: every 4xx and 5xx response is retried.
PerformFetchStepRetry4xx(r, o) ==
  IF o.type = "response"
  THEN IF o.status >= 400 /\ r.retries > 0 THEN "wait" ELSE "return"
  ELSE IF o.type = "failedToFetch"
       THEN IF r.retries > 0 THEN "wait" ELSE "throwNetwork"
       ELSE "rethrow"

\* What performFetch does when its fetch settles with outcome o: "wait"
\* (setTimeout before the recursive call), "return" the response, throw the
\* network message, or re-throw.
PerformFetchStep(r, o) ==
  IF o.type = "response"
  THEN IF o.status >= 500 /\ r.retries > 0 THEN "wait" ELSE "return"
  ELSE IF o.type = "failedToFetch"
       THEN IF r.retries > 0 THEN "wait" ELSE "throwNetwork"
       ELSE "rethrow"

ThrownMessage(step) == IF step = "throwNetwork" THEN MSG_NETWORK ELSE MSG_FETCH_OTHER

Waiting(r, o) == [r EXCEPT !.phase = "wait", !.hist = Append(@, o.status)]

\* Mutant of AfterWait: the delay is not doubled.
AfterWaitNoDouble(r) ==
  [r EXCEPT !.phase = "fetch", !.retries = @ - 1, !.waits = Append(@, r.backoff)]

\* The timer fires: performFetch(url, options, retries - 1, backoff * 2).
AfterWait(r) ==
  [r EXCEPT !.phase = "fetch", !.retries = @ - 1, !.backoff = @ * 2,
            !.waits = Append(@, r.backoff)]

Finished(r, o, res) ==
  [r EXCEPT !.phase = "done", !.hist = Append(@, o.status), !.result = res]

IsOk(status) == status >= 200 /\ status <= 299

(***************************************************************************)
(* Texts the re-implementation stream can carry: concatenations of at most *)
(* MaxPieces pieces of the palette.                                        *)
(***************************************************************************)
Quoted(s) == <<QUOTE>> \o s \o <<QUOTE>>
Member(k, v) == Quoted(k) \o <<COLON>> \o v
Object(members) == <<LBRACE>> \o members \o <<RBRACE>>
FileObject(p, c) == Object(Member(PATH, p) \o <<COMMA>> \o Member(CONTENT, c))

\* {"path":"a","content":"x"} and {"path":"b","content":"y"}
OBJ_A == FileObject(Quoted(<<"a">>), Quoted(<<"x">>))
OBJ_B == FileObject(Quoted(<<"b">>), Quoted(<<"y">>))
\* {"path":"a","content":"y"}   the path of OBJ_A with another content
OBJ_A2 == FileObject(Quoted(<<"a">>), Quoted(<<"y">>))
\* [3 backquotes]json[newline] and [3 backquotes]
FENCE_OPEN == <<TICK, TICK, TICK>> \o JSON_WORD \o <<NL>>
FENCE_CLOSE == <<TICK, TICK, TICK>>
\* {"path":"a",}   balanced braces, not JSON
BAD_SYNTAX == Object(Member(PATH, Quoted(<<"a">>)) \o <<COMMA>>)
\* {"path":"a"     the closing brace is missing
MISSING_CLOSE == <<LBRACE>> \o Member(PATH, Quoted(<<"a">>))
\* }
STRAY_CLOSE == <<RBRACE>>
\* {"path":"a","content":"}"}   valid JSON, a brace inside a string
BRACE_IN_STRING == FileObject(Quoted(<<"a">>), Quoted(<<RBRACE>>))
\* {"path":1,"content":{}}   valid JSON, the fields are not strings
NOT_STRINGS == FileObject(<<ONE>>, Object(<< >>))
\* {"path":"","content":"x"}
EMPTY_PATH == FileObject(Quoted(<< >>), Quoted(<<"x">>))
\* {"path":"a"}
NO_CONTENT == Object(Member(PATH, Quoted(<<"a">>)))

ValidPieces == {OBJ_A, OBJ_B}
InvalidPieces == {BAD_SYNTAX, MISSING_CLOSE, STRAY_CLOSE}
Palette ==
  ValidPieces \cup InvalidPieces \cup {FENCE_OPEN, NO_CONTENT, NOT_STRINGS}
\* Texts with the pieces that the palette leaves out.
EdgeSeqs ==
  {<<EMPTY_PATH, OBJ_A>>, <<BRACE_IN_STRING, OBJ_A>>, <<OBJ_A, FENCE_CLOSE>>}

RECURSIVE Concat(_)
Concat(ps) == IF ps = << >> THEN << >> ELSE Head(ps) \o Concat(Tail(ps))

PieceSeqs(P, n) == UNION {[1..k -> P] : k \in 0..n}

\* A stream that will deliver the concatenation of pieces.
StreamOf(pieces) == [pieces |-> pieces, text |-> Concat(pieces), pos |-> 0]
NoStream == StreamOf(<< >>)
Remaining(st) == Len(st.text) - st.pos
Delivered(st) == SubSeq(st.text, 1, st.pos)

(***************************************************************************)
(* State.                                                                  *)
(***************************************************************************)
VARIABLES
  appState,            \* AppComponent.appState
  errorMessage,        \* AppComponent.errorMessage
  analysisResult,      \* AppComponent.analysisResult: Null or the chunks so far
  reimplementedFiles,  \* AppComponent.reimplementedFiles: Null or the records
  fetchedFiles,        \* AppComponent.fetchedFiles
  expandedFile,        \* AppComponent.expandedFile
  statusSteps,         \* AppComponent.statusSteps: status of stage 1..5
  pc,                  \* the await at which the run of onAnalyzeRepo is suspended
  call,                \* the performFetch call of details, branch or tree
  lastCall,            \* the last such call that has finished
  fileTree,            \* getRepoFiles: fileTree
  batchStart,          \* getRepoFiles: i
  blobs,               \* getRepoFiles: the performFetch calls of the batch
  allFiles,            \* getRepoFiles: allFiles
  stream,              \* the re-implementation stream: its text (the pieces it
                       \* is made of) and how much of it has been delivered
  streamState,         \* its iterator: "none", "open", "ended", "failed", "closed"
  buffer,              \* onAnalyzeRepo: buffer
  archive,             \* the archive that the step just taken has handed to
                       \* the browser: Null, or the records given to
                       \* createAndDownloadZip and the entries of the archive
  second               \* a later invocation of onAnalyzeRepo that is suspended
                       \* while the run of pc goes on: "none" or its await

signals ==
  <<appState, errorMessage, analysisResult, reimplementedFiles, fetchedFiles,
    expandedFile, statusSteps>>
fetcher == <<call, lastCall, fileTree, batchStart, blobs, allFiles>>
parser == <<stream, streamState, buffer>>
session == <<archive, second>>
vars == <<signals, pc, fetcher, parser, session>>

Stages == 1..5
PendingSteps == [id \in Stages |-> "pending"]

Init ==
  /\ appState = "idle"
  /\ errorMessage = Null
  /\ analysisResult = Null
  /\ reimplementedFiles = Null
  /\ fetchedFiles = Null
  /\ expandedFile = Null
  /\ statusSteps = PendingSteps
  /\ pc = "none"
  /\ call = NoCall
  /\ lastCall = NoCall
  /\ fileTree = << >>
  /\ batchStart = 0
  /\ blobs = << >>
  /\ allFiles = << >>
  /\ stream = NoStream
  /\ streamState = "none"
  /\ buffer = << >>
  /\ archive = Null
  /\ second = "none"

\* A step of the run: no archive is built, a later invocation stays where it is.
Quiet ==
  /\ archive' = Null
  /\ UNCHANGED second

(***************************************************************************)
(* AppComponent helpers.                                                   *)
(***************************************************************************)
\* updateStatus(id, status) applied to the step list steps.
UpdateStatus(steps, id, status) ==
  [i \in Stages |-> IF i = id THEN status ELSE steps[i]]

\* statusSteps().find(s => s.status === 'in-progress'): 0 when there is none.
InProgressStep(steps) ==
  IF \E i \in Stages : steps[i] = "in-progress"
  THEN CHOOSE i \in Stages :
         /\ steps[i] = "in-progress"
         /\ \A j \in Stages : steps[j] = "in-progress" => i <= j
  ELSE 0

\* Mutant of HandleError: the first step that is not complete is marked, be
\* it in-progress or still pending.
HandleErrorFirstOpen(steps, message) ==
  /\ appState' = "error"
  /\ errorMessage' = Some(message)
  /\ statusSteps' =
       IF \E i \in Stages : steps[i] # "complete"
       THEN UpdateStatus(steps,
                         CHOOSE i \in Stages :
                           /\ steps[i] # "complete"
                           /\ \A j \in Stages : steps[j] # "complete" => i <= j,
                         "error")
       ELSE steps

\* handleError(message), called when the step list is steps.
HandleError(steps, message) ==
  /\ appState' = "error"
  /\ errorMessage' = Some(message)
  /\ statusSteps' =
       IF InProgressStep(steps) # 0
       THEN UpdateStatus(steps, InProgressStep(steps), "error")
       ELSE steps

\* The locals of getRepoFiles go out of scope.
FetcherLeaves(finished) ==
  /\ call' = NoCall
  /\ lastCall' = finished
  /\ fileTree' = << >>
  /\ batchStart' = 0
  /\ blobs' = << >>

\* catch (error) { handleError(message) } of onAnalyzeRepo, in stage 2 to 4.
RunFails(message) ==
  /\ HandleError(statusSteps, message)
  /\ pc' = "none"
  /\ allFiles' = << >>
  /\ UNCHANGED <<call, lastCall, fileTree, batchStart, blobs>>

(***************************************************************************)
(* onAnalyzeRepo, up to its first await (app.component.ts 44-59).          *)
(***************************************************************************)
Urls == {"", "https://example.com/x", "https://github.com/o/r"}

\* parseGithubUrl: TRUE when it returns, FALSE when it throws.
ParseGithubUrlOk(url) == url = "https://github.com/o/r"

\* Mutant of OnAnalyzeRepo: resetState leaves expandedFile as it is.
OnAnalyzeRepoKeepsExpanded(url) ==
  /\ pc = "none"
  /\ IF url = ""
     THEN /\ HandleError(statusSteps, MSG_ENTER_URL)
          /\ UNCHANGED <<analysisResult, reimplementedFiles, fetchedFiles,
                         expandedFile, pc, fetcher, parser>>
     ELSE /\ analysisResult' = Null
          /\ reimplementedFiles' = Null
          /\ fetchedFiles' = Null
          /\ UNCHANGED expandedFile
          /\ allFiles' = << >>
          /\ stream' = NoStream
          /\ streamState' = "none"
          /\ buffer' = << >>
          /\ IF ParseGithubUrlOk(url)
             THEN /\ appState' = "loading"
                  /\ errorMessage' = Null
                  /\ statusSteps' = UpdateStatus(PendingSteps, 1, "in-progress")
                  /\ pc' = "details"
                  /\ call' = NewCall("details")
                  /\ lastCall' = NoCall
                  /\ fileTree' = << >>
                  /\ batchStart' = 0
                  /\ blobs' = << >>
             ELSE /\ HandleError(PendingSteps, MSG_INVALID_URL)
                  /\ pc' = "none"
                  /\ FetcherLeaves(NoCall)
  /\ Quiet

OnAnalyzeRepo(url) ==
  /\ pc = "none"
  /\ IF url = ""
     THEN /\ HandleError(statusSteps, MSG_ENTER_URL)
          /\ UNCHANGED <<analysisResult, reimplementedFiles, fetchedFiles,
                         expandedFile, pc, fetcher, parser>>
     ELSE \* resetState(); appState.set('loading')
          /\ analysisResult' = Null
          /\ reimplementedFiles' = Null
          /\ fetchedFiles' = Null
          /\ expandedFile' = Null
          /\ allFiles' = << >>
          /\ stream' = NoStream
          /\ streamState' = "none"
          /\ buffer' = << >>
          /\ IF ParseGithubUrlOk(url)
             THEN /\ appState' = "loading"
                  /\ errorMessage' = Null
                  /\ statusSteps' = UpdateStatus(PendingSteps, 1, "in-progress")
                  /\ pc' = "details"
                  /\ call' = NewCall("details")
                  /\ lastCall' = NoCall
                  /\ fileTree' = << >>
                  /\ batchStart' = 0
                  /\ blobs' = << >>
             ELSE /\ HandleError(PendingSteps, MSG_INVALID_URL)
                  /\ pc' = "none"
                  /\ FetcherLeaves(NoCall)
  /\ Quiet

(***************************************************************************)
(* Stage 1: GithubService.getRepoFiles, suspended in performFetch.         *)
(***************************************************************************)
RepoFile(path) == [path |-> path, content |-> "text"]

\* The blob entries a recursive tree can list, by path.
Trees == {[j \in 1..n |-> j] : n \in 0..MaxTree}

Min(a, b) == IF a < b THEN a ELSE b

\* Mutant of NewBatch: the end of the slice is left out, fileTree.slice(i).
NewBatchToEnd(tree, i) == [j \in 1..(Len(tree) - i) |-> NewCall("blob")]

\* fileTree.slice(i, i + batchSize).map(getBlobContent)
NewBatch(tree, i) == [j \in 1..Min(BATCH_SIZE, Len(tree) - i) |-> NewCall("blob")]

\* getRepoFiles throws: its catch wraps the message, onAnalyzeRepo's catch
\* calls handleError.
GetRepoFilesThrows(finished, message) ==
  /\ HandleError(statusSteps, WrapDownload(message))
  /\ pc' = "none"
  /\ FetcherLeaves(finished)
  /\ allFiles' = << >>
  /\ UNCHANGED <<analysisResult, reimplementedFiles, fetchedFiles, expandedFile, parser>>

\* Mutant of GetRepoFilesReturns: no return after the handleError of the empty
\* repository, the run goes on to stage 2.
GetRepoFilesReturnsGoesOn(files) ==
  /\ IF files = << >>
     THEN /\ appState' = "error"
          /\ errorMessage' = Some(MSG_EMPTY)
     ELSE UNCHANGED <<appState, errorMessage>>
  /\ statusSteps' =
       UpdateStatus(UpdateStatus(statusSteps, 1, "complete"), 2, "in-progress")
  /\ pc' = "select"
  /\ FetcherLeaves(NoCall)
  /\ allFiles' = files
  /\ UNCHANGED <<analysisResult, reimplementedFiles, fetchedFiles, expandedFile, parser>>

\* getRepoFiles returns files: onAnalyzeRepo 60-69.
GetRepoFilesReturns(files) ==
  /\ IF files = << >>
     THEN /\ HandleError(UpdateStatus(statusSteps, 1, "complete"), MSG_EMPTY)
          /\ pc' = "none"
     ELSE /\ statusSteps' =
               UpdateStatus(UpdateStatus(statusSteps, 1, "complete"), 2, "in-progress")
          /\ pc' = "select"
          /\ UNCHANGED <<appState, errorMessage>>
  /\ FetcherLeaves(NoCall)
  /\ allFiles' = files
  /\ UNCHANGED <<analysisResult, reimplementedFiles, fetchedFiles, expandedFile, parser>>

\* performFetch waits and calls itself; nothing else changes.
CallWaits(o) ==
  /\ call' = Waiting(call, o)
  /\ UNCHANGED <<signals, pc, lastCall, fileTree, batchStart, blobs, allFiles, parser>>

\* The next request of getRepoFiles is issued.
NextRequest(finished, kind) ==
  /\ pc' = kind
  /\ call' = NewCall(kind)
  /\ lastCall' = finished
  /\ UNCHANGED <<signals, fileTree, batchStart, blobs, allFiles, parser>>

\* getDefaultBranch 77-88: the message thrown for a response that is not ok.
DetailsErrorMessage(status) ==
  IF status = 403 THEN MSG_RATE_LIMIT
  ELSE IF status = 404 THEN MSG_NOT_FOUND
  ELSE IF status = 401 THEN MSG_BAD_TOKEN
  ELSE MsgDetailsFailed(status)

\* The fetch of getDefaultBranch settles.
DetailsSettles(o) ==
  /\ pc = "details" /\ call.phase = "fetch"
  /\ LET step == PerformFetchStep(call, o)
         finished == Finished(call, o, IF step = "return" THEN Some(o.status) ELSE Null)
     IN CASE step = "wait" -> CallWaits(o)
          [] step = "return" ->
               IF ~IsOk(o.status)
               THEN GetRepoFilesThrows(finished, DetailsErrorMessage(o.status))
               ELSE IF o.body = "noBranch"
                    THEN GetRepoFilesThrows(finished, MSG_NO_BRANCH)
                    ELSE NextRequest(finished, "branch")
          [] OTHER -> GetRepoFilesThrows(finished, ThrownMessage(step))
  /\ Quiet

\* The fetch of getLatestCommitTreeSha settles.
BranchSettles(o) ==
  /\ pc = "branch" /\ call.phase = "fetch"
  /\ LET step == PerformFetchStep(call, o)
         finished == Finished(call, o, IF step = "return" THEN Some(o.status) ELSE Null)
     IN CASE step = "wait" -> CallWaits(o)
          [] step = "return" ->
               IF ~IsOk(o.status)
               THEN GetRepoFilesThrows(finished, MsgBranchFailed(o.status))
               ELSE IF o.body = "noCommit"
                    THEN GetRepoFilesThrows(finished, MSG_NO_COMMIT)
                    ELSE NextRequest(finished, "tree")
          [] OTHER -> GetRepoFilesThrows(finished, ThrownMessage(step))
  /\ Quiet

\* The fetch of getRecursiveTree settles; tree is the blob list of a 200 body.
TreeSettles(o, tree) ==
  /\ pc = "tree" /\ call.phase = "fetch"
  /\ LET step == PerformFetchStep(call, o)
         finished == Finished(call, o, IF step = "return" THEN Some(o.status) ELSE Null)
     IN CASE step = "wait" -> CallWaits(o)
          [] step = "return" ->
               IF ~IsOk(o.status)
               THEN GetRepoFilesThrows(finished, MsgTreeFailed(o.status))
               ELSE IF tree = << >>
                    THEN GetRepoFilesReturns(<< >>)
                    ELSE /\ pc' = "blobs"
                         /\ call' = NoCall
                         /\ lastCall' = finished
                         /\ fileTree' = tree
                         /\ batchStart' = 0
                         /\ blobs' = NewBatch(tree, 0)
                         /\ UNCHANGED <<signals, allFiles, parser>>
          [] OTHER -> GetRepoFilesThrows(finished, ThrownMessage(step))
  /\ Quiet

\* The timer of a waiting details, branch or tree call fires.
BackoffElapses ==
  /\ pc \in {"details", "branch", "tree"} /\ call.phase = "wait"
  /\ call' = AfterWait(call)
  /\ UNCHANGED <<signals, pc, lastCall, fileTree, batchStart, blobs, allFiles, parser>>
  /\ Quiet

\* getBlobContent 125-139: the content, or null (a skipped file).
BlobContent(o) ==
  IF IsOk(o.status) /\ o.body = "base64" THEN Some("text") ELSE Null

\* Mutant of ValidFiles: the filter is left out, a skipped blob yields a file.
ValidFilesUnfiltered(tree, i, bs) == [k \in 1..Len(bs) |-> RepoFile(tree[i + k])]

\* batchResults.filter(f => f !== null), in the order of the batch.
RECURSIVE ValidFiles(_, _, _)
ValidFiles(tree, i, bs) ==
  IF bs = << >> THEN << >>
  ELSE (IF Head(bs).result.null THEN << >> ELSE <<RepoFile(tree[i + 1])>>)
         \o ValidFiles(tree, i + 1, Tail(bs))

\* The fetch of the j-th blob of the batch settles.  When it was the last one
\* outstanding, Promise.all resolves and the loop of getRepoFiles goes on.
BlobSettles(j, o) ==
  /\ pc = "blobs" /\ j \in DOMAIN blobs /\ blobs[j].phase = "fetch"
  /\ LET step == PerformFetchStep(blobs[j], o)
         settled == [blobs EXCEPT ![j] = Finished(blobs[j], o, BlobContent(o))]
         files == allFiles \o ValidFiles(fileTree, batchStart, settled)
         next == batchStart + BATCH_SIZE
     IN CASE step = "wait" ->
               /\ blobs' = [blobs EXCEPT ![j] = Waiting(blobs[j], o)]
               /\ UNCHANGED <<signals, pc, call, lastCall, fileTree, batchStart,
                              allFiles, parser>>
          [] step = "return" ->
               IF \E k \in DOMAIN settled : settled[k].phase # "done"
               THEN /\ blobs' = settled
                    /\ UNCHANGED <<signals, pc, call, lastCall, fileTree,
                                   batchStart, allFiles, parser>>
               ELSE IF next < Len(fileTree)
                    THEN /\ batchStart' = next
                         /\ blobs' = NewBatch(fileTree, next)
                         /\ allFiles' = files
                         /\ UNCHANGED <<signals, pc, call, lastCall, fileTree, parser>>
                    ELSE GetRepoFilesReturns(files)
          [] OTHER ->
               GetRepoFilesThrows(Finished(blobs[j], o, Null), ThrownMessage(step))
  /\ Quiet

\* The timer of a waiting blob call fires.
BlobBackoffElapses(j) ==
  /\ pc = "blobs" /\ j \in DOMAIN blobs /\ blobs[j].phase = "wait"
  /\ blobs' = [blobs EXCEPT ![j] = AfterWait(blobs[j])]
  /\ UNCHANGED <<signals, pc, call, lastCall, fileTree, batchStart, allFiles, parser>>
  /\ Quiet

(***************************************************************************)
(* Stages 2 to 5 (app.component.ts 69-147).                                *)
(***************************************************************************)
\* What a failing call of the language-model service is reported as:
\* error instanceof Error ? error.message : 'An unknown error occurred.'
ModelFailures == {MSG_MODEL_API, MSG_UNKNOWN}

\* allFiles.filter(f => relevantFilePaths.includes(f.path))
RECURSIVE Filter(_, _)
Filter(files, paths) ==
  IF files = << >> THEN << >>
  ELSE (IF Head(files).path \in paths THEN <<Head(files)>> ELSE << >>)
         \o Filter(Tail(files), paths)

\* Mutant of SelectSettles: updateStatus(2, 'complete') is left out.
SelectSettlesNoComplete(relevantFilePaths) ==
  /\ pc = "select"
  /\ statusSteps' = UpdateStatus(statusSteps, 3, "in-progress")
  /\ fetchedFiles' = Some(Filter(allFiles, relevantFilePaths))
  /\ pc' = "analyzeCall"
  /\ allFiles' = << >>
  /\ UNCHANGED <<appState, errorMessage, analysisResult, reimplementedFiles,
                 expandedFile, call, lastCall, fileTree, batchStart, blobs, parser>>
  /\ Quiet

\* selectRelevantFiles resolves with the paths in relevantFilePaths.
SelectSettles(relevantFilePaths) ==
  /\ pc = "select"
  /\ statusSteps' =
       UpdateStatus(UpdateStatus(statusSteps, 2, "complete"), 3, "in-progress")
  /\ fetchedFiles' = Some(Filter(allFiles, relevantFilePaths))
  /\ pc' = "analyzeCall"
  /\ allFiles' = << >>
  /\ UNCHANGED <<appState, errorMessage, analysisResult, reimplementedFiles,
                 expandedFile, call, lastCall, fileTree, batchStart, blobs, parser>>
  /\ Quiet

\* analyzeCode resolves with the stream: analysisResult.set('').
AnalyzeCallSettles ==
  /\ pc = "analyzeCall"
  /\ analysisResult' = Some(<< >>)
  /\ pc' = "analyzeStream"
  /\ UNCHANGED <<appState, errorMessage, reimplementedFiles, fetchedFiles,
                 expandedFile, statusSteps, fetcher, allFiles, parser>>
  /\ Quiet

\* A chunk of the analysis stream: analysisResult.update(current + chunk.text).
AnalysisChunk ==
  /\ pc = "analyzeStream"
  /\ LET current == IF analysisResult.null THEN << >> ELSE analysisResult.v
     IN /\ Len(current) < MaxAnalysisChunks
        /\ analysisResult' = Some(Append(current, "chunk"))
  /\ UNCHANGED <<appState, errorMessage, reimplementedFiles, fetchedFiles,
                 expandedFile, statusSteps, pc, fetcher, parser>>
  /\ Quiet

\* The analysis stream ends: 82-87, up to the await of reimplementCode.
AnalysisEnds ==
  /\ pc = "analyzeStream"
  /\ statusSteps' =
       UpdateStatus(UpdateStatus(statusSteps, 3, "complete"), 4, "in-progress")
  /\ appState' = "analyzed"
  /\ reimplementedFiles' = Some(<< >>)
  /\ pc' = "reimplCall"
  /\ UNCHANGED <<errorMessage, analysisResult, fetchedFiles, expandedFile,
                 fetcher, parser>>
  /\ Quiet

\* reimplementCode resolves with a stream that will deliver the pieces:
\* buffer = ''.
ReimplCallSettles(pieces) ==
  /\ pc = "reimplCall"
  /\ stream' = StreamOf(pieces)
  /\ streamState' = "open"
  /\ buffer' = << >>
  /\ pc' = "reimplStream"
  /\ UNCHANGED <<signals, fetcher>>
  /\ Quiet

\* The stream delivers its next n characters as one chunk: 91-141.
ChunkArrives(n) ==
  /\ pc = "reimplStream" /\ streamState = "open"
  /\ n \in 0..Remaining(stream)
  /\ LET chunk == SubSeq(stream.text, stream.pos + 1, stream.pos + n)
         \* reimplementedFiles.update(files => [...(files ?? []), file])
         files == IF reimplementedFiles.null THEN << >> ELSE reimplementedFiles.v
         r == ProcessChunk(buffer, files, chunk)
     IN /\ reimplementedFiles' =
             IF r.files = files THEN reimplementedFiles ELSE Some(r.files)
        /\ IF r.thrown
           THEN \* an exception leaves the for-await loop: the iterator is
                \* closed, the catch of onAnalyzeRepo calls handleError
                /\ HandleError(statusSteps, MSG_SYNTAX)
                /\ streamState' = "closed"
                /\ buffer' = << >>
                /\ pc' = "none"
           ELSE /\ buffer' = r.buffer
                /\ UNCHANGED <<appState, errorMessage, statusSteps, pc, streamState>>
  /\ stream' = [stream EXCEPT !.pos = @ + n]
  /\ UNCHANGED <<analysisResult, fetchedFiles, expandedFile, fetcher>>
  /\ Quiet

\* The stream ends: 144-147.  The local buffer goes out of scope.
StreamEnds ==
  /\ pc = "reimplStream" /\ streamState = "open"
  /\ Remaining(stream) = 0
  /\ statusSteps' =
       UpdateStatus(UpdateStatus(statusSteps, 4, "complete"), 5, "complete")
  /\ appState' = "reimplemented"
  /\ streamState' = "ended"
  /\ buffer' = << >>
  /\ pc' = "none"
  /\ UNCHANGED <<errorMessage, analysisResult, reimplementedFiles, fetchedFiles,
                 expandedFile, fetcher, stream>>
  /\ Quiet

\* The stream throws instead of delivering: catch, handleError.
StreamFails(message) ==
  /\ pc = "reimplStream" /\ streamState = "open"
  /\ HandleError(statusSteps, message)
  /\ streamState' = "failed"
  /\ stream' = NoStream
  /\ buffer' = << >>
  /\ pc' = "none"
  /\ UNCHANGED <<analysisResult, reimplementedFiles, fetchedFiles, expandedFile,
                 fetcher>>
  /\ Quiet

\* An awaited call or stream of the language-model service throws in stage 2,
\* 3 or 4 before the re-implementation stream is open.
ModelCallFails(message) ==
  /\ pc \in {"select", "analyzeCall", "analyzeStream", "reimplCall"}
  /\ RunFails(message)
  /\ UNCHANGED <<analysisResult, reimplementedFiles, fetchedFiles, expandedFile, parser>>
  /\ Quiet

(***************************************************************************)
(* The run of the component.                                               *)
(***************************************************************************)
\* Texts of the re-implementation stream in the full run.
RunPalette == {OBJ_A, OBJ_A2}
RunPieces == PieceSeqs(RunPalette, MaxPieces) \cup {<<OBJ_A, MISSING_CLOSE>>}

Paths == 1..MaxTree

Next ==
  \/ \E url \in Urls : OnAnalyzeRepo(url)
  \/ \E o \in Outcomes("details") : DetailsSettles(o)
  \/ \E o \in Outcomes("branch") : BranchSettles(o)
  \/ \E o \in Outcomes("tree"), tree \in Trees : TreeSettles(o, tree)
  \/ BackoffElapses
  \/ \E j \in 1..BATCH_SIZE, o \in Outcomes("blob") : BlobSettles(j, o)
  \/ \E j \in 1..BATCH_SIZE : BlobBackoffElapses(j)
  \/ \E ps \in SUBSET Paths : SelectSettles(ps)
  \/ AnalyzeCallSettles
  \/ AnalysisChunk
  \/ AnalysisEnds
  \/ \E ps \in RunPieces : ReimplCallSettles(ps)
  \/ \E n \in 0..Remaining(stream) : ChunkArrives(n)
  \/ StreamEnds
  \/ \E m \in ModelFailures : StreamFails(m)
  \/ \E m \in ModelFailures : ModelCallFails(m)

Spec == Init /\ [][Next]_vars

(***************************************************************************)
(* The session: the run and the other two triggers of the user, toggleFile *)
(* and onDownloadZip (app.component.ts 156-168, zip.service.ts 8-29).      *)
(***************************************************************************)
\* The paths of the records on display.
ListedPaths ==
  IF reimplementedFiles.null THEN {}
  ELSE {GetMember(reimplementedFiles.v[i], PATH) : i \in 1..Len(reimplementedFiles.v)}

\* toggleFile(path): expandedFile.update(current => current === path ? null : path)
ToggleFile(path) ==
  /\ expandedFile' = IF expandedFile = Some(path) THEN Null ELSE Some(path)
  /\ archive' = Null
  /\ UNCHANGED <<appState, errorMessage, analysisResult, reimplementedFiles,
                 fetchedFiles, statusSteps, pc, fetcher, parser, second>>

\* files.forEach(file => zip.file(file.path, file.content)): JSZip keeps one
\* entry per name, a later file of the same name takes the place of the
\* earlier one.
RECURSIVE ZipFiles(_, _)
ZipFiles(zip, files) ==
  IF files = << >> THEN zip
  ELSE ZipFiles(SetMember(zip, GetMember(Head(files), PATH),
                          GetMember(Head(files), CONTENT)),
                Tail(files))

\* createAndDownloadZip(files, zipName): nothing when the JSZip library is not
\* loaded, else the archive of the files.
CreateAndDownloadZip(files, jszipLoaded) ==
  IF ~jszipLoaded THEN Null
  ELSE Some([files |-> files, entries |-> ZipFiles(<< >>, files)])

\* onDownloadZip(): if (!files) return; createAndDownloadZip(files, repoName)
OnDownloadZip(jszipLoaded) ==
  /\ archive' =
       IF reimplementedFiles.null THEN Null
       ELSE CreateAndDownloadZip(reimplementedFiles.v, jszipLoaded)
  /\ UNCHANGED <<signals, pc, fetcher, parser, second>>

\* The inputs of the run in the session.
SessionTrees == {<< >>, <<1>>}
SessionPieces == {<<OBJ_A, OBJ_A2>>, <<OBJ_A, MISSING_CLOSE>>}

NextSession ==
  \/ \E url \in Urls : OnAnalyzeRepo(url)
  \/ \E o \in Outcomes("details") : DetailsSettles(o)
  \/ \E o \in Outcomes("branch") : BranchSettles(o)
  \/ \E o \in Outcomes("tree"), tree \in SessionTrees : TreeSettles(o, tree)
  \/ BackoffElapses
  \/ \E j \in 1..BATCH_SIZE, o \in Outcomes("blob") : BlobSettles(j, o)
  \/ \E j \in 1..BATCH_SIZE : BlobBackoffElapses(j)
  \/ \E ps \in SUBSET {1} : SelectSettles(ps)
  \/ AnalyzeCallSettles
  \/ AnalysisChunk
  \/ AnalysisEnds
  \/ \E ps \in SessionPieces : ReimplCallSettles(ps)
  \/ \E n \in 0..Remaining(stream) : ChunkArrives(n)
  \/ StreamEnds
  \/ \E m \in ModelFailures : StreamFails(m)
  \/ \E m \in ModelFailures : ModelCallFails(m)
  \/ \E path \in ListedPaths : ToggleFile(path)
  \/ \E jszipLoaded \in BOOLEAN : OnDownloadZip(jszipLoaded)

SpecSession == Init /\ [][NextSession]_vars

(***************************************************************************)
(* Re-entrant invocation: onAnalyzeRepo is invoked while the run of pc is  *)
(* suspended at an await.  The later invocation runs up to its first await *)
(* (app.component.ts 44-59) and is followed no further; the earlier run    *)
(* keeps its locals and goes on.                                           *)
(***************************************************************************)
Reenter(url) ==
  /\ pc # "none" /\ second = "none"
  /\ IF url = ""
     THEN /\ HandleError(statusSteps, MSG_ENTER_URL)
          /\ UNCHANGED <<analysisResult, reimplementedFiles, fetchedFiles,
                         expandedFile, second>>
     ELSE \* resetState(); appState.set('loading')
          /\ analysisResult' = Null
          /\ reimplementedFiles' = Null
          /\ fetchedFiles' = Null
          /\ expandedFile' = Null
          /\ IF ParseGithubUrlOk(url)
             THEN /\ appState' = "loading"
                  /\ errorMessage' = Null
                  /\ statusSteps' = UpdateStatus(PendingSteps, 1, "in-progress")
                  /\ second' = "details"
             ELSE /\ HandleError(PendingSteps, MSG_INVALID_URL)
                  /\ UNCHANGED second
  /\ archive' = Null
  /\ UNCHANGED <<pc, fetcher, parser>>

NextReentrant ==
  \/ \E url \in Urls : OnAnalyzeRepo(url)
  \/ \E url \in Urls : Reenter(url)
  \/ \E o \in Outcomes("details") : DetailsSettles(o)
  \/ \E o \in Outcomes("branch") : BranchSettles(o)
  \/ \E o \in Outcomes("tree"), tree \in SessionTrees : TreeSettles(o, tree)
  \/ BackoffElapses
  \/ \E j \in 1..BATCH_SIZE, o \in Outcomes("blob") : BlobSettles(j, o)
  \/ \E j \in 1..BATCH_SIZE : BlobBackoffElapses(j)
  \/ \E ps \in SUBSET {1} : SelectSettles(ps)
  \/ AnalyzeCallSettles
  \/ AnalysisChunk
  \/ AnalysisEnds
  \/ \E ps \in SessionPieces : ReimplCallSettles(ps)
  \/ \E n \in 0..Remaining(stream) : ChunkArrives(n)
  \/ StreamEnds
  \/ \E m \in ModelFailures : StreamFails(m)
  \/ \E m \in ModelFailures : ModelCallFails(m)

SpecReentrant == Init /\ [][NextReentrant]_vars

(***************************************************************************)
(* getRepoFiles over a tree that needs more than one batch (part_000       *)
(* 148-163).  To keep the batch of BATCH_SIZE downloads explorable, three  *)
(* downloads of a batch (the first two and the last) settle at any time    *)
(* and with a retried, a skipped or a throwing outcome; the others settle  *)
(* at once with a decodable blob, in the order of the batch among          *)
(* themselves.                                                             *)
(***************************************************************************)
BatchTrees == {[j \in 1..(BATCH_SIZE + n) |-> j] : n \in 1..MaxTree}

Stragglers == {1, 2, BATCH_SIZE}

StragglerOutcomes ==
  {Response(200, "base64"), Response(200, "otherEncoding"),
   Response(200, "undecodable"), Response(503, "none"), OtherError}

\* The completions of the batch that are explored.
MaySettle(j, o) ==
  IF j \in Stragglers
  THEN o \in StragglerOutcomes
  ELSE /\ o = Response(200, "base64")
       /\ \A k \in 1..(j - 1) :
            k \in Stragglers \/ (k \in DOMAIN blobs /\ blobs[k].phase = "done")

NextBatches ==
  \/ \E url \in Urls : OnAnalyzeRepo(url)
  \/ \E o \in Outcomes("details") : DetailsSettles(o)
  \/ \E o \in Outcomes("branch") : BranchSettles(o)
  \/ \E tree \in BatchTrees : TreeSettles(Response(200, "tree"), tree)
  \/ BackoffElapses
  \/ \E j \in 1..BATCH_SIZE, o \in Outcomes("blob") :
       MaySettle(j, o) /\ BlobSettles(j, o)
  \/ \E j \in 1..BATCH_SIZE : BlobBackoffElapses(j)

SpecBatches == Init /\ [][NextBatches]_vars

(***************************************************************************)
(* The stream parser alone: the run is at the for-await loop of stage 4,   *)
(* the stream is about to deliver some pieces.                             *)
(***************************************************************************)
AtStreamStart(pieceSeqs) ==
  /\ appState = "analyzed"
  /\ errorMessage = Null
  /\ analysisResult = Some(<< >>)
  /\ reimplementedFiles = Some(<< >>)
  /\ fetchedFiles = Some(<<RepoFile(1)>>)
  /\ expandedFile = Null
  /\ statusSteps = [i \in Stages |-> IF i <= 3 THEN "complete"
                                     ELSE IF i = 4 THEN "in-progress" ELSE "pending"]
  /\ pc = "reimplStream"
  /\ call = NoCall
  /\ lastCall = NoCall
  /\ fileTree = << >>
  /\ batchStart = 0
  /\ blobs = << >>
  /\ allFiles = << >>
  /\ stream \in {StreamOf(ps) : ps \in pieceSeqs}
  /\ streamState = "open"
  /\ buffer = << >>
  /\ archive = Null
  /\ second = "none"

NextParser ==
  \/ \E n \in 0..Remaining(stream) : ChunkArrives(n)
  \/ StreamEnds
  \/ \E m \in ModelFailures : StreamFails(m)

\* Any pieces of the palette, and the edge texts.
InitParser == AtStreamStart(PieceSeqs(Palette, MaxPieces) \cup EdgeSeqs)
SpecParser == InitParser /\ [][NextParser]_vars

\* A valid object, an invalid one, a valid object.
ResilienceSeqs ==
  {<<v1, m, v2>> : v1 \in ValidPieces, m \in InvalidPieces, v2 \in ValidPieces}
InitResilience == AtStreamStart(ResilienceSeqs)
SpecResilience == InitResilience /\ [][NextParser]_vars

\* k valid objects, alternately OBJ_A and OBJ_B, with brace-free noise before,
\* between and after them: nothing, an opening fence with its newline or a
\* bare fence before each object, nothing or a bare fence after the last one.
NoisySeqs(k) ==
  {[i \in 1..(2 * k + 1) |->
      IF i = 2 * k + 1 THEN last
      ELSE IF i % 2 = 1 THEN ns[(i + 1) \div 2]
      ELSE IF (i \div 2) % 2 = 1 THEN OBJ_A ELSE OBJ_B] :
     ns \in [1..k -> {<< >>, FENCE_OPEN, FENCE_CLOSE}], last \in {<< >>, FENCE_CLOSE}}
InitNoise == AtStreamStart(UNION {NoisySeqs(k) : k \in 0..MaxObjects})
SpecNoise == InitNoise /\ [][NextParser]_vars

(***************************************************************************)
(* Properties of the stream parser.                                        *)
(***************************************************************************)
\* The records the valid pieces stand for, written out.
FileRecord(p, c) == ObjectVal(<<<<PATH, StringVal(p)>>, <<CONTENT, StringVal(c)>>>>)
REC_A == FileRecord(<<"a">>, <<"x">>)
REC_B == FileRecord(<<"b">>, <<"y">>)
REC_A2 == FileRecord(<<"a">>, <<"y">>)

RecordsOfPiece(piece) ==
  IF piece = OBJ_A THEN <<REC_A>>
  ELSE IF piece = OBJ_B THEN <<REC_B>>
  ELSE IF piece = OBJ_A2 THEN <<REC_A2>>
  ELSE << >>

RECURSIVE ValidRecords(_)
ValidRecords(pieces) ==
  IF pieces = << >> THEN << >>
  ELSE RecordsOfPiece(Head(pieces)) \o ValidRecords(Tail(pieces))

IsPrefix(a, b) == Len(a) <= Len(b) /\ SubSeq(b, 1, Len(a)) = a

\* The brace-balanced spans of a text: a span starts at the first '{' after
\* the previous span and ends at the first '}' up to which as many braces
\* were closed as opened; an unfinished span ends the list.
Balance(t, s, e) ==
  Cardinality({j \in s..e : t[j] = LBRACE}) - Cardinality({j \in s..e : t[j] = RBRACE})

RECURSIVE SpansFrom(_, _)
SpansFrom(t, i) ==
  LET s == IndexFrom(t, LBRACE, i)
      e == First({k \in s..Len(t) : t[k] = RBRACE /\ Balance(t, s, k) = 0})
  IN IF s = 0 \/ e = 0 THEN << >>
     ELSE <<SubSeq(t, s, e)>> \o SpansFrom(t, e + 1)

Spans(t) == SpansFrom(t, 1)

\* The spans that parse and whose path and content are truthy, parsed.
RECURSIVE RecordsOfSpans(_)
RecordsOfSpans(spans) ==
  IF spans = << >> THEN << >>
  ELSE LET r == JsonParse(Head(spans))
       IN (IF r.ok /\ Truthy(GetMember(r.val, PATH)) /\ Truthy(GetMember(r.val, CONTENT))
           THEN <<r.val>> ELSE << >>)
            \o RecordsOfSpans(Tail(spans))

ExpectedRecords(t) == RecordsOfSpans(Spans(t))

\* C1: chunk-split invariance.  However the text delivered so far was cut into
\* chunks, the records in reimplementedFiles are those that the same text
\* gives when it is processed as one single chunk; at the end of the stream
\* the text delivered is the whole text.
ChunkSplitInvariance ==
  (pc = "reimplStream" \/ streamState = "ended") =>
    reimplementedFiles.v = ProcessChunk(<< >>, << >>, Delivered(stream)).files

\* A chunk boundary lies inside the second object of the text, after the
\* first object has been emitted.
ChunkSplitWitness ==
  /\ pc = "reimplStream"
  /\ Len(reimplementedFiles.v) = 1
  /\ buffer # << >> /\ buffer[1] = LBRACE
  /\ Remaining(stream) > 0

\* C2: malformed-object resilience.  When the stream <valid object> <invalid
\* object> <valid object> has ended, the run has not failed and the records
\* are exactly those of the two valid objects, in their order.
MalformedObjectResilience ==
  (streamState = "ended" /\ stream.pieces \in ResilienceSeqs) =>
    /\ appState = "reimplemented"
    /\ reimplementedFiles.v =
         RecordsOfPiece(stream.pieces[1]) \o RecordsOfPiece(stream.pieces[3])

\* C3: a stream that ends without failing leaves stage 4 and 5 complete and
\* appState reimplemented with no error message, whatever it delivered; the
\* step that ends the run keeps the records and drops the buffer.
StreamEndIsSuccess ==
  [][(pc = "reimplStream" /\ pc' = "none" /\ streamState' # "failed") =>
       /\ statusSteps'[4] = "complete"
       /\ statusSteps'[5] = "complete"
       /\ appState' = "reimplemented"
       /\ errorMessage' = Null
       /\ reimplementedFiles' = reimplementedFiles
       /\ buffer' = << >>]_vars

\* A stream has ended after a complete object and an incomplete trailing one.
StreamEndWitness ==
  /\ streamState = "ended"
  /\ stream.pieces = <<OBJ_A, MISSING_CLOSE>>
  /\ reimplementedFiles.v = <<REC_A>>
  /\ appState = "reimplemented"

\* C4: noise tolerance.  For a text of valid objects (no brace inside their
\* strings) with brace-free noise before, between and after them, the records
\* at the end of the stream are exactly those of the objects, in input order.
NoiseTolerance ==
  (streamState = "ended" /\ stream.pieces \in UNION {NoisySeqs(k) : k \in 0..MaxObjects}) =>
    reimplementedFiles.v = ValidRecords(stream.pieces)

\* fence, object, fence, object, fence has been delivered to its end.
NoiseWitness ==
  /\ streamState = "ended"
  /\ stream.pieces = <<FENCE_OPEN, OBJ_A, FENCE_CLOSE, OBJ_B, FENCE_CLOSE>>
  /\ reimplementedFiles.v = <<REC_A, REC_B>>

\* C5: prompt emission.  After each chunk the buffer holds no complete
\* brace-balanced span starting at its first '{', and the records are those of
\* the spans that have ended in the text delivered so far, in the order in
\* which the spans end.
NoCompleteSpan(b) ==
  LET i == IndexOf(b, LBRACE)
  IN i = 0 \/ Spans(Substring(b, i)) = << >>

PromptEmission ==
  pc = "reimplStream" =>
    /\ NoCompleteSpan(buffer)
    /\ reimplementedFiles.v = ExpectedRecords(Delivered(stream))

\* The record of the first object is in the list while the second object is
\* still arriving.
PromptEmissionWitness ==
  /\ pc = "reimplStream"
  /\ stream.pieces = <<OBJ_B, OBJ_A>>
  /\ reimplementedFiles.v = <<REC_B>>
  /\ buffer # << >>
  /\ Remaining(stream) > 0

\* C6: every record of reimplementedFiles has a non-empty string path and a
\* non-empty string content.
IsNonEmptyString(v) == v.t = "string" /\ v.s # << >>

RecordsHaveStringFields ==
  ~reimplementedFiles.null =>
    \A i \in 1..Len(reimplementedFiles.v) :
      /\ IsNonEmptyString(GetMember(reimplementedFiles.v[i], PATH))
      /\ IsNonEmptyString(GetMember(reimplementedFiles.v[i], CONTENT))

\* C7: reimplementedFiles only grows by appending.  Unless a new run starts,
\* a step keeps the list a list and the earlier value a prefix of the later
\* one, and changes it only while the stream of stage 4 is read; records of
\* one path are all kept, in order.
NewRunStarts == \E url \in Urls \ {""} : OnAnalyzeRepo(url)

FilesGrowByAppending ==
  /\ [][(~NewRunStarts /\ ~reimplementedFiles.null) =>
          /\ ~reimplementedFiles'.null
          /\ IsPrefix(reimplementedFiles.v, reimplementedFiles'.v)
          /\ (pc # "reimplStream" => reimplementedFiles' = reimplementedFiles)]_vars
  /\ []((streamState = "ended" /\ stream.pieces \in PieceSeqs({OBJ_A, OBJ_A2}, MaxPieces)) =>
          reimplementedFiles.v = ValidRecords(stream.pieces))

\* Two records of the same path are in the list after the stream has ended.
SamePathWitness ==
  /\ streamState = "ended"
  /\ reimplementedFiles.v = <<REC_A, REC_A2>>

(***************************************************************************)
(* Properties of performFetch and of stage 1.                              *)
(***************************************************************************)
Last(h) == h[Len(h)]

IsTransient(code) == code >= 500 \/ code = 0

\* The outcomes of a call after which it went on to another attempt.
RetriedOutcomes(r) ==
  IF r.phase = "done" THEN SubSeq(r.hist, 1, Len(r.hist) - 1) ELSE r.hist

\* The fetches a call has issued.
Attempts(r) == Len(r.hist) + (IF r.phase = "fetch" THEN 1 ELSE 0)

RetryDiscipline(r) ==
  r.phase # "none" =>
    /\ Attempts(r) <= 4
    /\ \A i \in DOMAIN RetriedOutcomes(r) : IsTransient(RetriedOutcomes(r)[i])
    /\ Len(r.waits) = Len(RetriedOutcomes(r)) - (IF r.phase = "wait" THEN 1 ELSE 0)
    /\ \A i \in DOMAIN r.waits : r.waits[i] = 300 * 2 ^ (i - 1)
    /\ (r.phase = "done" /\ r.hist = <<503, 503, 200>>) =>
         /\ r.waits = <<300, 600>>
         /\ r.kind # "blob" => r.result = Some(200)

\* C8: every call of performFetch retries only after a 5xx response or a
\* 'Failed to fetch' failure, issues at most 4 fetches, has waited once before
\* each retry, the i-th wait being 300 * 2^(i-1) ms; a call answered 503, 503,
\* 200 returns the 200 response after the two waits 300 and 600.
RetryBackoff ==
  /\ RetryDiscipline(call)
  /\ RetryDiscipline(lastCall)
  /\ \A j \in DOMAIN blobs : RetryDiscipline(blobs[j])

\* A details, branch or tree request was answered 503, 503, 200.
RetryBackoffWitness ==
  /\ lastCall.phase = "done"
  /\ lastCall.hist = <<503, 503, 200>>
  /\ lastCall.waits = <<300, 600>>
  /\ lastCall.result = Some(200)

\* C9: a 401, 403 or 404 response to the repository-details request is not
\* retried: the step in which it arrives ends the run in the error state with
\* stage 1 in error and the message of that status; a details call that goes
\* on has seen none of them, and when it is the first response no wait has
\* happened.  The three messages differ.
PermanentStatuses == {401, 403, 404}

PermanentMessage(status) ==
  CASE status = 404 -> MSG_NOT_FOUND
    [] status = 401 -> MSG_BAD_TOKEN
    [] status = 403 -> MSG_RATE_LIMIT

PermanentErrorsFailAtOnce ==
  /\ [][(pc = "details" /\ lastCall' # lastCall
           /\ Last(lastCall'.hist) \in PermanentStatuses) =>
          /\ pc' = "none"
          /\ appState' = "error"
          /\ statusSteps'[1] = "error"
          /\ errorMessage' =
               Some(WrapDownload(PermanentMessage(Last(lastCall'.hist))))]_vars
  /\ [](pc = "details" =>
          \A i \in DOMAIN call.hist : call.hist[i] \notin PermanentStatuses)
  /\ []((lastCall.kind = "details" /\ Len(lastCall.hist) = 1
           /\ lastCall.hist[1] \in PermanentStatuses) => lastCall.waits = << >>)
  /\ [](\A s1, s2 \in PermanentStatuses :
          s1 # s2 => WrapDownload(PermanentMessage(s1)) # WrapDownload(PermanentMessage(s2)))

\* The details request was answered 404 at its first attempt.
PermanentErrorWitness ==
  /\ pc = "none"
  /\ lastCall.kind = "details"
  /\ lastCall.hist = <<404>>
  /\ lastCall.waits = << >>
  /\ errorMessage = Some(WrapDownload(MSG_NOT_FOUND))

\* C10: when every allowed attempt of a GitHub request has failed with a
\* transient error (all 5xx, or all network failures), the step in which the
\* last attempt fails ends the run in the error state with the network-error
\* message.
Exhausted(r) ==
  /\ r.phase = "done"
  /\ Len(r.hist) = 4
  /\ \/ \A i \in DOMAIN r.hist : r.hist[i] >= 500
     \/ \A i \in DOMAIN r.hist : r.hist[i] = 0

ExhaustedRetriesAreNetworkError ==
  [][(\/ lastCall' # lastCall /\ Exhausted(lastCall')
      \/ \E j \in DOMAIN blobs' :
           j \in DOMAIN blobs /\ blobs[j].phase # "done" /\ Exhausted(blobs'[j])) =>
       /\ pc' = "none"
       /\ appState' = "error"
       /\ errorMessage' \in {Some(MSG_NETWORK), Some(WrapDownload(MSG_NETWORK))}]_vars

(***************************************************************************)
(* Properties of the stages and of the session state.                      *)
(***************************************************************************)
\* The moves of one stage along pending -> in-progress -> complete | error.
PathMoves ==
  {<<"pending", "in-progress">>, <<"in-progress", "complete">>,
   <<"in-progress", "error">>}

OnPath(i) ==
  statusSteps'[i] = statusSteps[i] \/ <<statusSteps[i], statusSteps'[i]>> \in PathMoves

\* C11: within one run every stage changes status only along pending ->
\* in-progress -> complete or pending -> in-progress -> error; a stage that is
\* complete or error changes again only when a new run resets it.
StagesFollowPath ==
  [][~NewRunStarts => \A i \in Stages : OnPath(i)]_vars

\* C11 as amended: stages 1 to 4 follow the path; stage 5 is never in-progress
\* nor error and goes from pending to complete in the step that completes
\* stage 4; complete and error are final until a new run resets the stages.
StagesFollowPathButLast ==
  /\ [][~NewRunStarts =>
          /\ \A i \in 1..4 : OnPath(i)
          /\ \/ statusSteps'[5] = statusSteps[5]
             \/ /\ statusSteps[5] = "pending" /\ statusSteps'[5] = "complete"
                /\ statusSteps[4] = "in-progress" /\ statusSteps'[4] = "complete"]_vars
  /\ [](statusSteps[5] \in {"pending", "complete"})

\* A run has gone through all its stages.
AllStagesCompleteWitness ==
  /\ pc = "none"
  /\ appState = "reimplemented"
  /\ \A i \in Stages : statusSteps[i] = "complete"

\* C12: a fatal failure of a run that has begun its stages leaves appState =
\* error, one message, no stage in-progress and exactly one stage in error,
\* the stage that was in-progress when the failure happened.
RunEndsInFailure == pc # "none" /\ pc' = "none" /\ appState' # "reimplemented"

FatalFailureMarksItsStage ==
  [][RunEndsInFailure =>
       /\ appState' = "error"
       /\ errorMessage' # Null
       /\ Cardinality({i \in Stages : statusSteps'[i] = "error"}) = 1
       /\ statusSteps'[InProgressStep(statusSteps)] = "error"
       /\ \A i \in Stages : statusSteps'[i] # "in-progress"]_vars

\* C13: the step that starts a run with a non-empty URL leaves every stage
\* pending, but stage 1 when it has been started, and analysisResult,
\* reimplementedFiles, fetchedFiles and expandedFile null; errorMessage is null
\* when stage 1 has been started; while stage 1 is in progress nothing of an
\* earlier run is there.
NewRunResetsSession ==
  /\ [][NewRunStarts =>
          /\ analysisResult' = Null
          /\ reimplementedFiles' = Null
          /\ fetchedFiles' = Null
          /\ expandedFile' = Null
          /\ \A i \in 2..5 : statusSteps'[i] = "pending"
          /\ statusSteps'[1] \in {"pending", "in-progress"}
          /\ statusSteps'[1] = "in-progress" => errorMessage' = Null]_vars
  /\ [](statusSteps[1] = "in-progress" =>
          /\ errorMessage = Null /\ analysisResult = Null
          /\ reimplementedFiles = Null /\ fetchedFiles = Null
          /\ expandedFile = Null)

\* A finished session with a report, records and an expanded file, from
\* which the next run starts.
SessionToResetWitness ==
  /\ pc = "none"
  /\ appState = "reimplemented"
  /\ analysisResult # Null /\ analysisResult.v # << >>
  /\ reimplementedFiles = Some(<<REC_A, REC_A2>>)
  /\ fetchedFiles # Null
  /\ expandedFile = Some(StringVal(<<"a">>))

\* C14: the archive built from a sequence of records has one entry per
\* record, at the record's path and with the record's content.
ZipHasOneEntryPerRecord ==
  archive # Null =>
    /\ Len(archive.v.entries) = Len(archive.v.files)
    /\ \A i \in 1..Len(archive.v.files) :
         \E j \in 1..Len(archive.v.entries) :
           archive.v.entries[j] =
             <<GetMember(archive.v.files[i], PATH), GetMember(archive.v.files[i], CONTENT)>>

\* C15: after each chunk the buffer is empty, or starts with '{' and holds no
\* position at which its braces are balanced.
IsOpenObjectPrefix(b) == b # << >> /\ b[1] = LBRACE /\ Spans(b) = << >>

IsLeftover(b) ==
  /\ ~Includes(b, LBRACE)
  /\ \E i \in 1..Len(b) : ~IsWs(b[i])
  /\ \/ Includes(b, RBRACE)
     \/ /\ \A i \in 1..Len(b) : ~IsTicksAt(b, i)
        /\ ~IsWs(b[1]) /\ ~IsWs(b[Len(b)])

StageOf(at) ==
  CASE at \in {"details", "branch", "tree", "blobs"} -> 1
    [] at = "select" -> 2
    [] at \in {"analyzeCall", "analyzeStream"} -> 3
    [] at \in {"reimplCall", "reimplStream"} -> 4

\* C16: while the run is suspended at an await, the stage of that await is
\* in-progress, every stage before it is complete and every stage after it
\* is pending; stage 4 becomes in-progress only in the step in which the
\* analysis stream ends, and stage 3 is complete from then on.
OneStageInProgress ==
  /\ [](pc # "none" =>
          \A i \in Stages :
            statusSteps[i] = (IF i < StageOf(pc) THEN "complete"
                              ELSE IF i = StageOf(pc) THEN "in-progress"
                              ELSE "pending"))
  /\ [][(statusSteps[4] # "in-progress" /\ statusSteps'[4] = "in-progress") =>
          /\ pc = "analyzeStream" /\ pc' = "reimplCall"
          /\ statusSteps'[3] = "complete"
          /\ analysisResult' = analysisResult /\ analysisResult # Null]_vars

\* The run reads the re-implementation stream after a report of at least one
\* chunk.
StageFourWitness ==
  /\ pc = "reimplStream"
  /\ statusSteps = <<"complete", "complete", "complete", "in-progress", "pending">>
  /\ analysisResult # Null /\ analysisResult.v # << >>
  /\ stream.pos > 0

\* C17: unless onAnalyzeRepo is invoked, appState moves only from loading to
\* analyzed, from analyzed to reimplemented, or from one of the two to error;
\* once it is error, appState, the stage statuses and reimplementedFiles stay
\* as they are; the error message, once set, stays the same, and is there
\* exactly when appState is error.
Invocation == \E url \in Urls : OnAnalyzeRepo(url)

AppStateMoves ==
  {<<"loading", "analyzed">>, <<"analyzed", "reimplemented">>,
   <<"loading", "error">>, <<"analyzed", "error">>}

ErrorIsAbsorbing ==
  /\ [][~Invocation =>
          /\ appState' = appState \/ <<appState, appState'>> \in AppStateMoves
          /\ appState = "error" =>
                UNCHANGED <<appState, statusSteps, reimplementedFiles>>
          /\ errorMessage # Null => errorMessage' = errorMessage]_vars
  /\ [](errorMessage # Null <=> appState = "error")

\* A run has failed in stage 4 with one record already in the list.
FailedRunWitness ==
  /\ pc = "none"
  /\ appState = "error"
  /\ errorMessage = Some(MSG_MODEL_API)
  /\ statusSteps = <<"complete", "complete", "complete", "error", "pending">>
  /\ reimplementedFiles = Some(<<REC_A>>)

\* C18: the writes of two invocations of onAnalyzeRepo do not interleave.
\* Once a later invocation has written and is suspended, the earlier run
\* writes no more to statusSteps, appState, analysisResult and
\* reimplementedFiles; at most one stage is in-progress; error is left only
\* by an invocation.
Reentry == \E url \in Urls : Reenter(url)

ReentrantRunsDoNotInterleave ==
  /\ [][second = "details" =>
          UNCHANGED <<statusSteps, appState, analysisResult, reimplementedFiles>>]_vars
  /\ [](Cardinality({i \in Stages : statusSteps[i] = "in-progress"}) <= 1)
  /\ [][(appState = "error" /\ ~Invocation /\ ~Reentry) => appState' = "error"]_vars

\* C19: an archive is built only from the final record list: in the step
\* that builds one the re-implementation stream has ended, stage 5 is
\* complete and appState is reimplemented.
ZipOnlyOfFinalList ==
  [][archive' # Null =>
       /\ streamState = "ended"
       /\ statusSteps[5] = "complete"
       /\ appState = "reimplemented"]_vars

\* The downloads of a batch that have not settled.
InFlight(bs) == {j \in DOMAIN bs : bs[j].phase # "done"}

\* The loop of getRepoFiles goes on to the next batch.
BatchAdvances == pc = "blobs" /\ pc' = "blobs" /\ batchStart' # batchStart

\* C20: at most BATCH_SIZE blob downloads are in flight; downloads are issued
\* only when the loop goes on to the next batch, which it does in the step
\* that settles the last outstanding download of the current batch, and then
\* the new downloads are those of the next BATCH_SIZE entries of the tree.
BatchesAreBoundedAndJoined ==
  [][/\ Len(blobs') <= BATCH_SIZE
     /\ Cardinality(InFlight(blobs')) <= BATCH_SIZE
     /\ BatchAdvances =>
          /\ Cardinality(InFlight(blobs)) = 1
          /\ \A j \in InFlight(blobs) : blobs[j].phase = "fetch"
          /\ batchStart' = batchStart + BATCH_SIZE
          /\ batchStart' + Len(blobs') <= Len(fileTree)
     /\ (pc = "blobs" /\ pc' = "blobs" /\ batchStart' = batchStart) =>
          /\ Len(blobs') = Len(blobs)
          /\ InFlight(blobs') \subseteq InFlight(blobs)]_vars

\* The second batch is in flight after a first batch in which a file was
\* skipped.
SecondBatchWitness ==
  /\ pc = "blobs"
  /\ batchStart = BATCH_SIZE
  /\ InFlight(blobs) # {}
  /\ Len(allFiles) < BATCH_SIZE

\* The position of path p in the tree listing.
PositionOf(tree, p) == CHOOSE i \in DOMAIN tree : tree[i] = p

\* files lists entries of tree[from + 1 .. to], each at most once, in the
\* order of the listing.
InListingOrder(tree, files, from, to) ==
  /\ \A k \in DOMAIN files :
       /\ \E i \in (from + 1)..to : i \in DOMAIN tree /\ files[k] = RepoFile(tree[i])
  /\ \A a \in 1..(Len(files) - 1) :
       PositionOf(tree, files[a].path) < PositionOf(tree, files[a + 1].path)

\* The blob decoded: a response that is ok, base64-encoded and decodable.
Decodes(o) == o.type = "response" /\ IsOk(o.status) /\ o.body = "base64"

\* Promise.all of the current batch resolves in this step.
BatchResolves ==
  /\ pc = "blobs"
  /\ \/ BatchAdvances
     \/ pc' = "select"
     \/ pc' = "none" /\ errorMessage' = Some(MSG_EMPTY)

\* The downloads of the batch whose fetch settles in this step.
Settling ==
  {j \in InFlight(blobs) :
     /\ blobs[j].phase = "fetch"
     /\ (pc' = "blobs" /\ ~BatchAdvances) => blobs'[j] # blobs[j]}

\* C21: a download that settles with a response never makes getRepoFiles
\* throw; the files collected grow only when a batch resolves, and then by
\* exactly the entries of the batch whose blob decoded, each once and in the
\* order of the tree listing, whatever the order in which the downloads
\* settled; so the list getRepoFiles returns is the decoded entries of the
\* whole tree in listing order.
DecodedFilesInTreeOrder ==
  [][pc = "blobs" =>
       \A j \in Settling, o \in Outcomes("blob") :
            (o.type = "response" /\ BlobSettles(j, o)) =>
              /\ pc' = "none" => errorMessage' = Some(MSG_EMPTY) /\ allFiles' = << >>
              /\ ~BatchResolves => allFiles' = allFiles
              /\ BatchResolves =>
                   LET new == SubSeq(allFiles', Len(allFiles) + 1, Len(allFiles'))
                       decoded == {k \in DOMAIN blobs :
                                     IF k = j THEN Decodes(o)
                                     ELSE ~blobs[k].result.null}
                   IN /\ InFlight(blobs) = {j}
                      /\ SubSeq(allFiles', 1, Len(allFiles)) = allFiles
                      /\ {new[k].path : k \in DOMAIN new} =
                           {fileTree[batchStart + k] : k \in decoded}
                      /\ Len(new) = Cardinality(decoded)
                      /\ InListingOrder(fileTree, allFiles', 0,
                                        batchStart + Len(blobs))]_vars

\* getRepoFiles has returned the files of a tree of BATCH_SIZE + 1 entries
\* whose first and last blob of the first batch were skipped.
SkippedBlobsWitness ==
  /\ pc = "select"
  /\ Len(allFiles) = BATCH_SIZE - 1
  /\ allFiles[1].path = 2
  /\ allFiles[BATCH_SIZE - 2].path = BATCH_SIZE - 1
  /\ allFiles[BATCH_SIZE - 1].path = BATCH_SIZE + 1

\* The extraction loop run on the buffer after the next chunk of n characters.
LoopAfterChunk(n) ==
  ProcessChunk(buffer,
               IF reimplementedFiles.null THEN << >> ELSE reimplementedFiles.v,
               SubSeq(stream.text, stream.pos + 1, stream.pos + n))

RECURSIVE TotalLen(_)
TotalLen(spans) ==
  IF spans = << >> THEN 0 ELSE Len(Head(spans)) + TotalLen(Tail(spans))

====
